---- MODULE Spec2Model ----
(***************************************************************************)
(* A model of torchbnn/modules/conv.py: the Bayesian convolution layer     *)
(* _BayesConvNd / BayesConv2d.  The layer object is a record of its        *)
(* attributes, a tensor is a record of its shape and its flattened data,   *)
(* and the collaborators the layer calls (torch's random generator, F.pad, *)
(* F.conv2d) are modelled by the calls made to them.                       *)
(*                                                                         *)
(* Numbers: a real value is an integer count of 1/Scale units.  -infinity  *)
(* is the value NegInf, below every finite log-sigma of the model.         *)
(***************************************************************************)
EXTENDS Integers, Sequences, FiniteSets, TLC

\* ------------------------------------------------------------------ bounds

\* Largest in_channels / out_channels passed to a constructor.
MaxChannels == 4
\* Largest groups passed to a constructor.
MaxGroups == 2
\* Largest extent of a kernel dimension.
MaxKernel == 2
\* Largest padding amount per spatial dimension.
MaxPad == 2
\* Largest height / width of an input tensor.
MaxSpatial == 2
\* Finite log-sigma values range over -MaxAbsLogSigma..MaxAbsLogSigma.
MaxAbsLogSigma == 1
\* Number of states of the random generator.
RngMod == 3

\* ------------------------------------------------------------------ values

\* 1.0 in fixed-point units.
Scale == 2 ^ MaxAbsLogSigma

\* float('-inf'): below every finite log-sigma.
NegInf == -(MaxAbsLogSigma + 1)

\* torch.exp with a stabilising epsilon added: positive at -infinity too.
TorchExp_plus_eps(x) == IF x = NegInf THEN 1 ELSE 2 ^ (x + MaxAbsLogSigma) + 1

\* torch.exp on a log-sigma: 0 at -infinity, positive and increasing on the
\* finite values, 1.0 at 0.
TorchExp(x) == IF x = NegInf THEN 0 ELSE 2 ^ (x + MaxAbsLogSigma)

\* Python values that are either an int or a tuple of ints.
PyInt(n) == [t |-> "int", v |-> n]
PyTuple(s) == [t |-> "tuple", v |-> s]

\* Python's None.
None == [t |-> "None"]

\* _pair taken for _triple: a scalar repeated three times.
pair_as_triple(x) == IF x.t = "tuple" THEN x ELSE PyTuple(<<x.v, x.v, x.v>>)

\* torch.nn.modules.utils._pair: an iterable is returned as it is, anything
\* else is repeated twice.
pair(x) == IF x.t = "tuple" THEN x ELSE PyTuple(<<x.v, x.v>>)

\* ----------------------------------------------------------------- tensors

RECURSIVE Prod(_)
Prod(s) == IF s = <<>> THEN 1 ELSE Head(s) * Prod(Tail(s))

\* torch.Tensor(*shape): allocated, not initialised; junk is what the memory
\* happens to hold.
Tensor(shape, junk) ==
    [t |-> "tensor", shape |-> shape, data |-> [i \in 1..Prod(shape) |-> junk]]

\* tensor.data.fill_(v)
fill_(tensor, v) == [tensor EXCEPT !.data = [i \in DOMAIN tensor.data |-> v]]

\* init._calculate_fan_in_and_fan_out(tensor)[0]
fan_in_of(tensor) == Prod(Tail(tensor.shape))

\* floor(Scale / sqrt(fan_in)): 1 / math.sqrt(fan_in) in fixed-point units.
InvSqrt(fan_in) ==
    CHOOSE b \in 0..Scale :
        /\ b * b * fan_in <= Scale * Scale
        /\ (b + 1) * (b + 1) * fan_in > Scale * Scale

\* -------------------------------------------------------- random generator

\* The generator is a deterministic state machine: n draws read the outputs
\* of n successive states and leave the generator n states further.
Advance(gen, n) == (gen + n) % RngMod

\* Output of a generator state as a standard-normal sample: -1, 0 or 1.
NormalOf(s) == (s % 3) - 1

\* Output of a generator state as a uniform sample of [0, 1]: 0, 1/2 or 1,
\* in halves.
UnitOf(s) == s % 3

\* torch.randn_like(tensor): the noise drawn in generator state gen.
randn_like(tensor, gen) ==
    [i \in DOMAIN tensor.data |-> NormalOf(Advance(gen, i - 1))]

\* init.uniform_(tensor, a, b) in generator state gen.
uniform_(tensor, a, b, gen) ==
    [tensor EXCEPT !.data =
        [i \in DOMAIN tensor.data |->
            a + ((b - a) * UnitOf(Advance(gen, i - 1))) \div 2]]

\* init.kaiming_uniform_(tensor, a=math.sqrt(5)): gain = sqrt(2 / (1 + 5)),
\* bound = sqrt(3) * gain / sqrt(fan_in) = 1 / sqrt(fan_in).
kaiming_uniform_(tensor, gen) ==
    uniform_(tensor, -InvSqrt(fan_in_of(tensor)), InvSqrt(fan_in_of(tensor)), gen)

\* ------------------------------------------------------------ _BayesConvNd

\* Module.__init__: an object with no attribute of the layer yet.
Module == [t |-> "Module"]

\* The names of the four statistic parameters.
ParamNames == {"weight_mu", "weight_log_sigma", "bias_mu", "bias_log_sigma"}

\* The divisibility checks without the one on out_channels.
check_groups_in_only(in_channels, out_channels, groups) ==
    IF in_channels % groups # 0
    THEN "ValueError: in_channels must be divisible by groups"
    ELSE "none"

\* The divisibility checks that open _BayesConvNd.__init__: the exception
\* raised, or "none".
check_groups(in_channels, out_channels, groups) ==
    IF in_channels % groups # 0
    THEN "ValueError: in_channels must be divisible by groups"
    ELSE IF out_channels % groups # 0
    THEN "ValueError: out_channels must be divisible by groups"
    ELSE "none"

\* The weight shape with the transposed layout used for every layer.
weight_shape_always_transposed(transposed, in_channels, out_channels, groups, kernel_size) ==
    <<in_channels, out_channels \div groups>> \o kernel_size.v

\* The shape both weight tensors are allocated with.
weight_shape(transposed, in_channels, out_channels, groups, kernel_size) ==
    IF transposed
    THEN <<in_channels, out_channels \div groups>> \o kernel_size.v
    ELSE <<out_channels, in_channels \div groups>> \o kernel_size.v

\* The bias parameters with zero-filled tensors in place of the Nones.
bias_parameters_zero_filled(bias, out_channels, junk) ==
    IF bias
    THEN [bias_mu |-> Tensor(<<out_channels>>, junk),
          bias_log_sigma |-> Tensor(<<out_channels>>, junk)]
    ELSE [bias_mu |-> Tensor(<<out_channels>>, 0),
          bias_log_sigma |-> Tensor(<<out_channels>>, 0)]

\* The bias parameters as allocated: two tensors, or two registered Nones.
bias_parameters(bias, out_channels, junk) ==
    IF bias
    THEN [bias_mu |-> Tensor(<<out_channels>>, junk),
          bias_log_sigma |-> Tensor(<<out_channels>>, junk)]
    ELSE [bias_mu |-> None, bias_log_sigma |-> None]

\* reset_parameters without the fill of bias_log_sigma.
reset_parameters_no_bias_fill(self, gen) ==
    LET w     == kaiming_uniform_(self.weight_mu, gen)
        gen1  == Advance(gen, Len(w.data))
        wls   == fill_(self.weight_log_sigma, self.prior_log_sigma)
        self1 == [self EXCEPT !.weight_mu = w, !.weight_log_sigma = wls]
    IN  IF self.bias
        THEN LET bound == InvSqrt(fan_in_of(self1.weight_mu))
                 b     == uniform_(self1.bias_mu, -bound, bound, gen1)
             IN  [self |-> [self1 EXCEPT !.bias_mu = b],
                  gen  |-> Advance(gen1, Len(b.data))]
        ELSE [self |-> self1, gen |-> gen1]

\* _BayesConvNd.reset_parameters in generator state gen: the layer with its
\* parameters initialised, and the generator state it leaves.
reset_parameters(self, gen) ==
    LET w     == kaiming_uniform_(self.weight_mu, gen)
        gen1  == Advance(gen, Len(w.data))
        wls   == fill_(self.weight_log_sigma, self.prior_log_sigma)
        self1 == [self EXCEPT !.weight_mu = w, !.weight_log_sigma = wls]
    IN  IF self.bias
        THEN LET bound == InvSqrt(fan_in_of(self1.weight_mu))
                 b     == uniform_(self1.bias_mu, -bound, bound, gen1)
                 bls   == fill_(self1.bias_log_sigma, self1.prior_log_sigma)
             IN  [self |-> [self1 EXCEPT !.bias_mu = b, !.bias_log_sigma = bls],
                  gen  |-> Advance(gen1, Len(b.data))]
        ELSE [self |-> self1, gen |-> gen1]

\* _BayesConvNd.__init__: the exception raised ("none" when it returns), the
\* object as __init__ leaves it, and the generator state.
BayesConvNd_init(cls, prior_mu, prior_log_sigma, in_channels, out_channels, kernel_size, stride, padding, dilation, transposed, output_padding, groups, bias, padding_mode, gen, junk) ==
    LET exc == check_groups(in_channels, out_channels, groups)
        shape == weight_shape(transposed, in_channels, out_channels, groups,
                              kernel_size)
        b == bias_parameters(bias, out_channels, junk)
        self == [t |-> cls,
                 in_channels |-> in_channels,
                 out_channels |-> out_channels,
                 kernel_size |-> kernel_size,
                 stride |-> stride,
                 padding |-> padding,
                 dilation |-> dilation,
                 transposed |-> transposed,
                 output_padding |-> output_padding,
                 groups |-> groups,
                 padding_mode |-> padding_mode,
                 prior_mu |-> prior_mu,
                 prior_log_sigma |-> prior_log_sigma,
                 bias |-> bias,
                 weight_mu |-> Tensor(shape, junk),
                 weight_log_sigma |-> Tensor(shape, junk),
                 bias_mu |-> b.bias_mu,
                 bias_log_sigma |-> b.bias_log_sigma]
        r == reset_parameters(self, gen)
    IN  IF exc # "none"
        THEN [raised |-> exc, self |-> Module, gen |-> gen]
        ELSE [raised |-> "none", self |-> r.self, gen |-> r.gen]

\* -------------------------------------------------------------- BayesConv2d

\* BayesConv2d.__init__ without _pair on dilation.
BayesConv2d_init_raw_dilation(a, gen, junk) ==
    BayesConvNd_init("BayesConv2d", a.prior_mu, a.prior_log_sigma,
                     a.in_channels, a.out_channels, pair(a.kernel_size),
                     pair(a.stride), pair(a.padding), a.dilation, FALSE,
                     pair(PyInt(0)), a.groups, a.bias, a.padding_mode, gen, junk)

\* BayesConv2d.__init__
BayesConv2d_init(a, gen, junk) ==
    BayesConvNd_init("BayesConv2d", a.prior_mu, a.prior_log_sigma,
                     a.in_channels, a.out_channels, pair(a.kernel_size),
                     pair(a.stride), pair(a.padding), pair(a.dilation), FALSE,
                     pair(PyInt(0)), a.groups, a.bias, a.padding_mode, gen, junk)

\* mean + torch.exp(log_sigma) * noise, elementwise.
sample(mean, log_sigma, noise) ==
    [mean EXCEPT !.data =
        [i \in DOMAIN mean.data |->
            mean.data[i] + TorchExp(log_sigma.data[i]) * noise[i]]]

\* F.pad(input, pad, mode) on a 4-d input: the last dimension grows by
\* pad[0] + pad[1], the one before it by pad[2] + pad[3] (Python indices).
F_pad(input, pad, mode) ==
    [t |-> "tensor", fn |-> "F.pad", input |-> input, pad |-> pad, mode |-> mode,
     shape |-> <<input.shape[1], input.shape[2],
                 input.shape[3] + pad[3] + pad[4],
                 input.shape[4] + pad[1] + pad[2]>>]

\* F.conv2d(input, weight, bias, stride, padding, dilation, groups): the
\* engine's result, as the invocation that produces it.
F_conv2d(input, weight, bias, stride, padding, dilation, groups) ==
    [t |-> "tensor", fn |-> "F.conv2d", input |-> input, weight |-> weight,
     bias |-> bias, stride |-> stride, padding |-> padding,
     dilation |-> dilation, groups |-> groups]

\* The pad amounts with the two spatial dimensions in leading-to-trailing
\* order.
expanded_padding_leading_first(padding) ==
    <<(padding.v[1] + 1) \div 2, padding.v[1] \div 2,
      (padding.v[2] + 1) \div 2, padding.v[2] \div 2>>

\* The circular-mode pad amounts of conv2d_forward.
expanded_padding(padding) ==
    <<(padding.v[2] + 1) \div 2, padding.v[2] \div 2,
      (padding.v[1] + 1) \div 2, padding.v[1] \div 2>>

\* The dispatch with padding_mode validated: any mode but 'zeros' and
\* 'circular' raises.
conv2d_dispatch_validating(self, input, weight, bias) ==
    IF self.padding_mode = "circular"
    THEN IF Len(self.padding.v) < 2
         THEN [raised |-> "IndexError", out |-> None]
         ELSE [raised |-> "none",
               out |-> F_conv2d(F_pad(input, expanded_padding(self.padding),
                                      "circular"),
                                weight, bias, self.stride, pair(PyInt(0)),
                                self.dilation, self.groups)]
    ELSE IF self.padding_mode = "zeros"
    THEN [raised |-> "none",
          out |-> F_conv2d(input, weight, bias, self.stride, self.padding,
                           self.dilation, self.groups)]
    ELSE [raised |-> "ValueError: unsupported padding_mode", out |-> None]

\* The padding-mode dispatch of conv2d_forward, given the sampled weight and
\* bias: the exception raised and the value returned.
conv2d_dispatch(self, input, weight, bias) ==
    IF self.padding_mode = "circular"
    THEN IF Len(self.padding.v) < 2
         THEN [raised |-> "IndexError", out |-> None]
         ELSE [raised |-> "none",
               out |-> F_conv2d(F_pad(input, expanded_padding(self.padding),
                                      "circular"),
                                weight, bias, self.stride, pair(PyInt(0)),
                                self.dilation, self.groups)]
    ELSE [raised |-> "none",
          out |-> F_conv2d(input, weight, bias, self.stride, self.padding,
                           self.dilation, self.groups)]

\* BayesConv2d.conv2d_forward in generator state gen: the draws it makes, the
\* generator state it leaves, the exception raised and the value returned.
conv2d_forward(self, input, weight, gen) ==
    LET noise == randn_like(self.bias_log_sigma, gen)
        bias  == IF self.bias
                 THEN sample(self.bias_mu, self.bias_log_sigma, noise)
                 ELSE None
        r     == conv2d_dispatch(self, input, weight, bias)
    IN  [raised |-> r.raised, out |-> r.out,
         draws |-> IF self.bias
                   THEN <<[like |-> "bias_log_sigma", noise |-> noise]>>
                   ELSE <<>>,
         gen |-> IF self.bias THEN Advance(gen, Len(noise)) ELSE gen]

\* forward keeping the sampled weight in the layer.
forward_keeps_sample(self, input, gen) ==
    LET noise  == randn_like(self.weight_log_sigma, gen)
        weight == sample(self.weight_mu, self.weight_log_sigma, noise)
        r      == conv2d_forward(self, input, weight, Advance(gen, Len(noise)))
    IN  [raised |-> r.raised, out |-> r.out,
         draws |-> <<[like |-> "weight_log_sigma", noise |-> noise]>> \o r.draws,
         gen |-> r.gen,
         self |-> [self EXCEPT !.weight_mu = weight]]

\* BayesConv2d.forward in generator state gen.
forward(self, input, gen) ==
    LET noise  == randn_like(self.weight_log_sigma, gen)
        weight == sample(self.weight_mu, self.weight_log_sigma, noise)
        r      == conv2d_forward(self, input, weight, Advance(gen, Len(noise)))
    IN  [raised |-> r.raised, out |-> r.out,
         draws |-> <<[like |-> "weight_log_sigma", noise |-> noise]>> \o r.draws,
         gen |-> r.gen,
         self |-> self]

\* ------------------------------------------------------------------ inputs

\* What uninitialised tensor memory may hold.
Junk == {-1, 1}

\* An int argument s, or a 2-tuple of ints, over lo..hi.
ScalarsAndPairs(lo, hi) ==
    {PyInt(s) : s \in lo..hi}
        \cup {PyTuple(<<x, y>>) : x \in lo..hi, y \in lo..hi}

\* Tuples whose length is not the spatial rank of BayesConv2d.
WrongRank == {PyTuple(<<MaxKernel>>), PyTuple(<<1, MaxKernel, 1>>)}

KernelArgs == ScalarsAndPairs(1, MaxKernel) \cup WrongRank
PaddingArgs == ScalarsAndPairs(0, MaxPad) \cup WrongRank
StrideArgs ==
    {PyInt(s) : s \in 1..MaxKernel}
        \cup {PyTuple(<<s, MaxKernel>>) : s \in 1..MaxKernel}
        \cup {PyTuple(<<1>>)}

LogSigmas == (-MaxAbsLogSigma)..MaxAbsLogSigma

\* BayesConv2d arguments that vary the channels, the groups, the kernel, the
\* bias flag and the prior; the rest at the signature's defaults.
ChannelInputs ==
    [prior_mu : {0}, prior_log_sigma : LogSigmas,
     in_channels : 1..MaxChannels, out_channels : 1..MaxChannels,
     kernel_size : ScalarsAndPairs(1, MaxKernel),
     stride : {PyInt(1)}, padding : {PyInt(0)}, dilation : {PyInt(1)},
     groups : 1..MaxGroups, bias : BOOLEAN, padding_mode : {"zeros"}]

\* BayesConv2d arguments that vary kernel_size, stride, padding and dilation
\* over ints, 2-tuples and tuples of another length.
GeometryInputs ==
    [prior_mu : {0}, prior_log_sigma : {0},
     in_channels : {1}, out_channels : {1},
     kernel_size : KernelArgs, stride : StrideArgs, padding : PaddingArgs,
     dilation : StrideArgs,
     groups : {1}, bias : {TRUE}, padding_mode : {"zeros"}]

CtorInputs == ChannelInputs \cup GeometryInputs

\* _BayesConvNd arguments (the base class built directly): tuples of any one
\* rank, transposed or not.
NdInputs ==
    [prior_mu : {0}, prior_log_sigma : {0},
     in_channels : 1..MaxChannels, out_channels : 1..MaxChannels,
     kernel_size : {PyTuple(<<x, y>>) : x \in 1..MaxKernel, y \in 1..MaxKernel}
                       \cup WrongRank,
     transposed : BOOLEAN,
     groups : 1..MaxGroups, bias : BOOLEAN, padding_mode : {"zeros"}]

\* BayesConv2d arguments of the layers forward is called on.
FwdInputs ==
    [prior_mu : {0}, prior_log_sigma : {0},
     in_channels : {1, 2}, out_channels : {2},
     kernel_size : {PyTuple(<<1, MaxKernel>>)},
     stride : {PyInt(1)},
     padding : ScalarsAndPairs(0, MaxPad) \cup {PyTuple(<<MaxPad>>)},
     dilation : {PyInt(1)},
     groups : {1, 2}, bias : BOOLEAN,
     padding_mode : {"zeros", "circular", "reflect"}]

\* The input tensors forward is called with: one image of in_channels
\* channels, h high and MaxSpatial + 1 wide, all ones.
Inputs(self) ==
    {Tensor(<<1, self.in_channels, h, MaxSpatial + 1>>, Scale) :
        h \in 1..MaxSpatial}

\* ------------------------------------------------------------------- state

VARIABLES
    pc,      \* "start", "constructed" or "raised" (the constructor raised)
    args,    \* the constructor's arguments as passed
    layer,   \* the object the constructor ran on
    error,   \* the exception the last operation raised, or "none"
    gen,     \* the state of torch's shared random generator
    draws,   \* the randn_like calls of the last forward call, in order, each
             \* with the tensor it was called on and the noise it returned
    out      \* what the last forward call returned

vars == <<pc, args, layer, error, gen, draws, out>>

Init ==
    /\ pc = "start"
    /\ args = None
    /\ layer = None
    /\ error = "none"
    /\ gen \in 0..(RngMod - 1)
    /\ draws = <<>>
    /\ out = None

\* layer = BayesConv2d(**a)
NewBayesConv2d(I) ==
    /\ pc = "start"
    /\ \E a \in I, junk \in Junk :
        LET r == BayesConv2d_init(a, gen, junk)
        IN  /\ pc' = IF r.raised = "none" THEN "constructed" ELSE "raised"
            /\ args' = a
            /\ layer' = r.self
            /\ error' = r.raised
            /\ gen' = r.gen
    /\ UNCHANGED <<draws, out>>

\* layer = _BayesConvNd(...), the base class built directly.
NewBayesConvNd(I) ==
    /\ pc = "start"
    /\ \E a \in I, junk \in Junk :
        LET ones  == PyTuple([i \in DOMAIN a.kernel_size.v |-> 1])
            zeros == PyTuple([i \in DOMAIN a.kernel_size.v |-> 0])
            r == BayesConvNd_init("_BayesConvNd", a.prior_mu, a.prior_log_sigma,
                                  a.in_channels, a.out_channels, a.kernel_size,
                                  ones, zeros, ones, a.transposed, zeros,
                                  a.groups, a.bias, a.padding_mode, gen, junk)
        IN  /\ pc' = IF r.raised = "none" THEN "constructed" ELSE "raised"
            /\ args' = a
            /\ layer' = r.self
            /\ error' = r.raised
            /\ gen' = r.gen
    /\ UNCHANGED <<draws, out>>

\* out = layer(input)
Forward ==
    /\ pc = "constructed"
    /\ layer.t = "BayesConv2d"
    /\ \E input \in Inputs(layer) :
        LET r == forward(layer, input, gen)
        IN  /\ layer' = r.self
            /\ error' = r.raised
            /\ gen' = r.gen
            /\ draws' = r.draws
            /\ out' = r.out
    /\ UNCHANGED <<pc, args>>

\* layer.<name>.data.fill_(float('-inf')), done from outside the layer.
ForceNegInf(name) ==
    /\ pc = "constructed"
    /\ layer[name] # None
    /\ layer' = [layer EXCEPT ![name] = fill_(@, NegInf)]
    /\ UNCHANGED <<pc, args, error, gen, draws, out>>

Next ==
    \/ NewBayesConv2d(FwdInputs)
    \/ Forward
    \/ \E name \in {"weight_log_sigma", "bias_log_sigma"} : ForceNegInf(name)

Spec == Init /\ [][Next]_vars

NextCtor ==
    \/ NewBayesConv2d(CtorInputs)
    \/ NewBayesConvNd(NdInputs)

SpecCtor == Init /\ [][NextCtor]_vars

\* ------------------------------------------------------ construction claims

\* The constructor arguments fail a divisibility check.
NotDivisible ==
    \/ args.in_channels % args.groups # 0
    \/ args.out_channels % args.groups # 0

\* The layer is a constructed BayesConv2d.
IsConv2d == pc = "constructed" /\ layer.t = "BayesConv2d"

\* The four geometry arguments of BayesConv2d that _pair is applied to.
GeometryNames == {"kernel_size", "stride", "padding", "dilation"}

\* C1: a constructor called with in_channels or out_channels not divisible by
\* groups raises ValueError and leaves an object with no attribute and no
\* parameter (nothing is corrected); called with both divisible it returns.
C1_IndivisibleChannelsRaise ==
    pc # "start" =>
        IF NotDivisible
        THEN /\ pc = "raised"
             /\ error = IF args.in_channels % args.groups # 0
                        THEN "ValueError: in_channels must be divisible by groups"
                        ELSE "ValueError: out_channels must be divisible by groups"
             /\ layer = Module
             /\ DOMAIN layer \cap (ParamNames \cup {"in_channels", "out_channels",
                                                   "groups"}) = {}
        ELSE /\ pc = "constructed"
             /\ error = "none"
             /\ layer.in_channels = args.in_channels
             /\ layer.out_channels = args.out_channels
             /\ layer.groups = args.groups

\* C1's case: in_channels = 3 with groups = 2 has raised.
C1_Witness ==
    /\ pc = "raised"
    /\ args.in_channels = 3
    /\ args.groups = 2
    /\ args.out_channels % 2 = 0

\* C2: in every constructed layer weight_mu and weight_log_sigma have the same
\* shape: (out_channels, in_channels / groups, *kernel_size) when the layer is
\* not transposed, (in_channels, out_channels / groups, *kernel_size) when it
\* is, the quotient being exact.
C2_WeightShapes ==
    pc = "constructed" =>
        LET shape == layer.weight_mu.shape
            k     == layer.kernel_size.v
        IN  /\ layer.weight_log_sigma.shape = shape
            /\ Len(shape) = 2 + Len(k)
            /\ \A i \in DOMAIN k : shape[2 + i] = k[i]
            /\ IF layer.transposed
               THEN /\ shape[1] = args.in_channels
                    /\ shape[2] * args.groups = args.out_channels
               ELSE /\ shape[1] = args.out_channels
                    /\ shape[2] * args.groups = args.in_channels
            /\ Len(layer.weight_mu.data) = Prod(shape)
            /\ Len(layer.weight_log_sigma.data) = Prod(shape)

\* C2's case: a transposed layer with groups = 2, different channel counts
\* and a kernel that is not square.
C2_Witness ==
    /\ pc = "constructed"
    /\ layer.transposed
    /\ args.groups = 2
    /\ args.in_channels = 4
    /\ args.out_channels = 2
    /\ layer.weight_mu.shape = <<4, 1, 1, 2>>

\* C4: right after construction every element of weight_log_sigma, and of
\* bias_log_sigma when the layer has a bias, is the argument prior_log_sigma.
C4_LogSigmaIsPrior ==
    pc = "constructed" =>
        /\ \A i \in DOMAIN layer.weight_log_sigma.data :
               layer.weight_log_sigma.data[i] = args.prior_log_sigma
        /\ layer.bias_log_sigma # None =>
               \A i \in DOMAIN layer.bias_log_sigma.data :
                   layer.bias_log_sigma.data[i] = args.prior_log_sigma

\* C4's case: a layer with a bias of several elements built with a prior
\* log-sigma other than 0.
C4_Witness ==
    /\ pc = "constructed"
    /\ args.bias
    /\ args.prior_log_sigma = -1
    /\ layer.bias_log_sigma # None
    /\ Len(layer.bias_log_sigma.data) > 1
    /\ Len(layer.weight_log_sigma.data) > 1

\* C5: BayesConv2d stores each of kernel_size, stride, padding and dilation
\* passed as a scalar s as the tuple (s, s), and one passed as a tuple as the
\* tuple passed.
C5_ScalarsExpandTuplesPass ==
    IsConv2d =>
        \A f \in GeometryNames :
            IF args[f].t = "int"
            THEN layer[f] = PyTuple(<<args[f].v, args[f].v>>)
            ELSE layer[f] = args[f]

\* C5's case: a layer built with a scalar kernel_size and a tuple padding of
\* two different amounts.
C5_Witness ==
    /\ IsConv2d
    /\ args.kernel_size = PyInt(2)
    /\ args.padding = PyTuple(<<1, 2>>)
    /\ layer.kernel_size = PyTuple(<<2, 2>>)
    /\ layer.padding = PyTuple(<<1, 2>>)

\* C6 as stated: in every constructed BayesConv2d, whatever was passed,
\* kernel_size, stride, padding, dilation and output_padding are tuples of
\* length 2.
C6_AllRankTwo ==
    IsConv2d =>
        \A f \in GeometryNames \cup {"output_padding"} :
            layer[f].t = "tuple" /\ Len(layer[f].v) = 2

\* C6 as amended: in every constructed BayesConv2d the five are tuples;
\* output_padding is (0, 0), one passed as a scalar has length 2, and one
\* passed as a tuple has the length of the tuple passed, so that all have
\* length 2 when every tuple passed has length 2.
C6_RankTwoUnlessTuplePassed ==
    IsConv2d =>
        /\ layer.output_padding = PyTuple(<<0, 0>>)
        /\ \A f \in GeometryNames :
            /\ layer[f].t = "tuple"
            /\ Len(layer[f].v) = IF args[f].t = "int" THEN 2 ELSE Len(args[f].v)
        /\ (\A f \in GeometryNames : args[f].t = "tuple" => Len(args[f].v) = 2)
               => \A f \in GeometryNames : Len(layer[f].v) = 2

\* C6's case: a layer built with a kernel_size of three elements and a scalar
\* stride.
C6_Witness ==
    /\ IsConv2d
    /\ args.kernel_size.t = "tuple"
    /\ Len(args.kernel_size.v) = 3
    /\ args.stride.t = "int"
    /\ Len(layer.kernel_size.v) = 3
    /\ Len(layer.stride.v) = 2

\* ----------------------------------------------------------- forward claims

\* A forward call on the layer has returned or raised.
ForwardDone == pc = "constructed" /\ draws # <<>>

\* The padding mode passed is neither 'zeros' nor 'circular'.
OtherMode == args.padding_mode \notin {"zeros", "circular"}

\* Every element of the tensor is -infinity.
AllNegInf(tensor) == \A i \in DOMAIN tensor.data : tensor.data[i] = NegInf

\* C3: in a constructed layer, before and after any forward calls, bias_mu and
\* bias_log_sigma are both tensors of shape (out_channels,) when the layer was
\* built with bias=True and both None when it was built with bias=False.
C3_BiasPresentIffFlag ==
    pc = "constructed" =>
        /\ (layer.bias_mu = None) <=> (layer.bias_log_sigma = None)
        /\ IF args.bias
           THEN \A n \in {"bias_mu", "bias_log_sigma"} :
                    /\ layer[n] # None
                    /\ layer[n].t = "tensor"
                    /\ layer[n].shape = <<args.out_channels>>
                    /\ Len(layer[n].data) = args.out_channels
           ELSE layer.bias_mu = None /\ layer.bias_log_sigma = None

\* C3's case: a layer built with bias=False after a forward call that passed
\* no bias to the engine.
C3_Witness ==
    /\ ForwardDone
    /\ ~args.bias
    /\ layer.bias_mu = None
    /\ out # None
    /\ out.bias = None

\* C7 as stated: a layer with another padding mode is constructed without
\* error, and a forward call on it raises and does not invoke the engine.
C7_OtherModeRaisesAtForward ==
    (pc # "start" /\ OtherMode) =>
        /\ ~NotDivisible => pc = "constructed"
        /\ ForwardDone => (error # "none" /\ out = None)

\* C7 as amended: a layer with another padding mode is constructed without
\* error, and a forward call on it raises nothing: it invokes the engine on
\* the unpadded input with the configured padding, as in 'zeros' mode.
C7_OtherModeFallsThrough ==
    (pc # "start" /\ OtherMode) =>
        /\ ~NotDivisible =>
               (pc = "constructed" /\ layer.padding_mode = args.padding_mode)
        /\ ForwardDone =>
               /\ error = "none"
               /\ out # None
               /\ out.fn = "F.conv2d"
               /\ out.input \in Inputs(layer)
               /\ out.padding = layer.padding

\* C7's case: a forward call has returned on a layer built with
\* padding_mode='reflect' and padding (1, 2).
C7_Witness ==
    /\ ForwardDone
    /\ layer.padding_mode = "reflect"
    /\ error = "none"
    /\ out # None
    /\ out.padding = PyTuple(<<1, 2>>)

\* C8: a forward call calls randn_like once on weight_log_sigma and then, when
\* the layer has a bias, once on bias_log_sigma, and no more; it leaves the
\* generator advanced by the elements drawn, and leaves the layer (its
\* configuration, its four statistic tensors, its set of attributes) as it was.
C8_ForwardDrawsAndFrame ==
    [][Forward =>
        /\ layer' = layer
        /\ args' = args
        /\ pc' = pc
        /\ Len(draws') = IF layer.bias THEN 2 ELSE 1
        /\ draws'[1].like = "weight_log_sigma"
        /\ DOMAIN draws'[1].noise = DOMAIN layer.weight_log_sigma.data
        /\ layer.bias =>
               /\ draws'[2].like = "bias_log_sigma"
               /\ DOMAIN draws'[2].noise = DOMAIN layer.bias_log_sigma.data
        /\ gen' = Advance(gen, Len(layer.weight_log_sigma.data)
                               + IF layer.bias
                                 THEN Len(layer.bias_log_sigma.data) ELSE 0)
      ]_vars

\* C8's case: a forward call on a layer with a bias has made its two draws and
\* returned.
C8_Witness ==
    /\ ForwardDone
    /\ args.bias
    /\ Len(draws) = 2
    /\ error = "none"
    /\ \E i \in DOMAIN draws[1].noise : draws[1].noise[i] # 0
    /\ out # None
    /\ out.weight # layer.weight_mu

\* C9: a forward call that returns has, in circular mode with padding
\* (p0, p1), padded the input by ((p1+1)//2, p1//2, (p0+1)//2, p0//2), which
\* grows its width by p1 and its height by p0, and invoked the engine on the
\* padded input with padding (0, 0); in any other mode it has invoked the
\* engine on the input itself with the configured padding.
C9_CircularPadsThenZeroPadding ==
    (ForwardDone /\ error = "none") =>
        LET p == layer.padding.v
        IN  IF layer.padding_mode = "circular"
            THEN /\ "fn" \in DOMAIN out.input
                 /\ out.input.fn = "F.pad"
                 /\ out.input.mode = "circular"
                 /\ out.input.pad = <<(p[2] + 1) \div 2, p[2] \div 2,
                                      (p[1] + 1) \div 2, p[1] \div 2>>
                 /\ out.input.pad[1] + out.input.pad[2] = p[2]
                 /\ out.input.pad[3] + out.input.pad[4] = p[1]
                 /\ out.input.input \in Inputs(layer)
                 /\ out.input.shape[4] = out.input.input.shape[4] + p[2]
                 /\ out.input.shape[3] = out.input.input.shape[3] + p[1]
                 /\ out.padding = PyTuple(<<0, 0>>)
            ELSE /\ out.input \in Inputs(layer)
                 /\ out.padding = layer.padding

\* C9's case: a forward call has returned in circular mode with padding
\* (1, 2).
C9_Witness ==
    /\ ForwardDone
    /\ error = "none"
    /\ layer.padding_mode = "circular"
    /\ layer.padding = PyTuple(<<1, 2>>)
    /\ out.input.pad = <<1, 1, 1, 0>>
    /\ out.padding = PyTuple(<<0, 0>>)

\* The engine invocation of a plain convolution of the input with weight_mu as
\* the weight and bias_mu (None without a bias) as the bias.
PlainConv(self, input) ==
    conv2d_dispatch(self, input, self.weight_mu,
                    IF self.bias THEN self.bias_mu ELSE None).out

\* C10 as stated: a forward call made while every element of weight_log_sigma
\* is -infinity returns the plain convolution of its input with weight_mu and,
\* if the layer has a bias, bias_mu.
C10_WeightSigmaZeroIsPlainConv ==
    [][(Forward /\ AllNegInf(layer.weight_log_sigma) /\ error' = "none") =>
        \E input \in Inputs(layer) : out' = PlainConv(layer, input)
      ]_vars

\* C10 as amended: a forward call made while every element of
\* weight_log_sigma is -infinity passes weight_mu to the engine as the weight;
\* without a bias, or with every element of bias_log_sigma -infinity as well,
\* it returns the plain convolution of its input with weight_mu and bias_mu.
C10_AllSigmaZeroIsPlainConv ==
    [][(Forward /\ AllNegInf(layer.weight_log_sigma) /\ error' = "none") =>
        /\ out'.weight = layer.weight_mu
        /\ (layer.bias => AllNegInf(layer.bias_log_sigma)) =>
               \E input \in Inputs(layer) : out' = PlainConv(layer, input)
      ]_vars

\* C10's case: a forward call that drew noise other than 0 for the weight and
\* for the bias has returned weight_mu and bias_mu, both log-sigma tensors
\* being -infinity.
C10_Witness ==
    /\ ForwardDone
    /\ error = "none"
    /\ args.bias
    /\ AllNegInf(layer.weight_log_sigma)
    /\ AllNegInf(layer.bias_log_sigma)
    /\ \E i \in DOMAIN draws[1].noise : draws[1].noise[i] # 0
    /\ \E i \in DOMAIN draws[2].noise : draws[2].noise[i] # 0
    /\ out.weight = layer.weight_mu
    /\ out.bias = layer.bias_mu

====
